---- MODULE Spec2Model ----
(***************************************************************************)
(* A model of osint_viz.py: the CSV record parser (read_csv), the IPv4     *)
(* literal test (is_ip), the graph builder (build_graph) and the           *)
(* directory loop of main.  Strings are sequences of one-character         *)
(* strings, so that strip, split, lower, startswith and rstrip are         *)
(* computed character by character as Python computes them.                *)
(***************************************************************************)
EXTENDS Integers, Sequences, FiniteSets, TLC

VARIABLES
    ipArg,      \* is_ip: the argument s of the call
    ipResult,   \* is_ip: "none" before the call, then "True" | "False" | "raise"
    row,        \* read_csv: the row the DictReader loop has just read
    edges,      \* read_csv: self.edges
    pcRead,     \* read_csv: "open" before the row is read, "eof" after ("idle": not running)
    nodes,      \* build_graph: self.G.nodes, node name -> type
    adj,        \* build_graph: self.G edges, unordered pair -> attributes
    folded,     \* build_graph: number of edges of self.edges folded so far
    cur,        \* build_graph: the loop's tuple (domain, target, rtype, mx_priority, txt_value)
    hist,       \* history: per node, how the folded edges created and referenced it
    lastEdge,   \* history: per unordered pair, the last folded edge joining it
    inputKind,  \* main: what args.input is: "file" | "dir" | "invalid"
    listing,    \* main: os.listdir(args.input), in the order it is iterated
    idx,        \* main: position of the directory loop in listing
    attempted,  \* main: positions of listing on which GraphToggleViz(...).run() was called
    generated,  \* main: positions of listing whose run() completed
    pcMain      \* main: "start" | "loop" | "done" | "raised" | "exit1"

vars == <<ipArg, ipResult, row, edges, pcRead, nodes, adj, folded, cur, hist, lastEdge,
          inputKind, listing, idx, attempted, generated, pcMain>>

ipVars    == <<ipArg, ipResult>>
readVars  == <<row, edges, pcRead>>
graphVars == <<nodes, adj, folded, cur, hist, lastEdge>>
mainVars  == <<inputKind, listing, idx, attempted, generated, pcMain>>

None == <<"None">>   \* Python's None: no string, since every string is a sequence of single characters

----------------------------------------------------------------------------
(* Python str methods, on sequences of characters *)

Whitespace == {" "}

Digits == {"0", "1", "2", "3", "4", "5", "6", "7", "8", "9"}

\* str.lower() on one character (the upper-case letters the inputs use)
LowerChar(c) ==
    CASE c = "V" -> "v" [] c = "S" -> "s" [] c = "P" -> "p" [] c = "F" -> "f"
      [] c = "D" -> "d" [] c = "M" -> "m" [] c = "A" -> "a" [] c = "R" -> "r"
      [] c = "C" -> "c" [] c = "T" -> "t" [] c = "X" -> "x" [] c = "Z" -> "z" [] c = "B" -> "b"
      [] OTHER -> c

Lower(s) == [i \in 1..Len(s) |-> LowerChar(s[i])]

RECURSIVE LStripChars(_, _)
LStripChars(s, chars) ==
    IF s # <<>> /\ Head(s) \in chars THEN LStripChars(Tail(s), chars) ELSE s

RECURSIVE RStripChars(_, _)
RStripChars(s, chars) ==
    IF s # <<>> /\ s[Len(s)] \in chars
    THEN RStripChars(SubSeq(s, 1, Len(s) - 1), chars)
    ELSE s

\* s.strip(chars)
StripChars(s, chars) == RStripChars(LStripChars(s, chars), chars)

\* s.strip()
Strip(s) == StripChars(s, Whitespace)

\* s.startswith(p)
StartsWith(s, p) == Len(s) >= Len(p) /\ SubSeq(s, 1, Len(p)) = p

\* s.endswith(p)
EndsWith(s, p) == Len(s) >= Len(p) /\ SubSeq(s, Len(s) - Len(p) + 1, Len(s)) = p

\* s.find(p) + 1: the first position where p occurs in s, 0 when it does not
Find(s, p) ==
    LET hits == {i \in 1..(Len(s) - Len(p) + 1) : SubSeq(s, i, i + Len(p) - 1) = p}
    IN IF hits = {} THEN 0 ELSE CHOOSE i \in hits : \A j \in hits : i <= j

\* p in s
Contains(s, p) == Find(s, p) # 0

\* s.split(sep, maxsplit); maxsplit = -1 splits at every occurrence
RECURSIVE SplitSep(_, _, _)
SplitSep(s, sep, maxsplit) ==
    LET at == Find(s, sep)
    IN IF maxsplit = 0 \/ at = 0
       THEN <<s>>
       ELSE <<SubSeq(s, 1, at - 1)>>
            \o SplitSep(SubSeq(s, at + Len(sep), Len(s)), sep, maxsplit - 1)

\* the length of the first whitespace-free run of s
RECURSIVE WordLen(_)
WordLen(s) ==
    IF s = <<>> \/ Head(s) \in Whitespace THEN 0 ELSE 1 + WordLen(Tail(s))

\* s.split(maxsplit=...) with no separator: runs of whitespace separate, no empty token;
\* when maxsplit runs out the rest is kept whole, leading whitespace removed
RECURSIVE SplitWs(_, _)
SplitWs(s, maxsplit) ==
    LET t == LStripChars(s, Whitespace)
        n == WordLen(t)
    IN IF t = <<>> THEN <<>>
       ELSE IF maxsplit = 0 THEN <<t>>
       ELSE <<SubSeq(t, 1, n)>> \o SplitWs(SubSeq(t, n + 1, Len(t)), maxsplit - 1)

\* the concatenation of a sequence of strings
RECURSIVE Concat(_)
Concat(ss) == IF ss = <<>> THEN <<>> ELSE Head(ss) \o Concat(Tail(ss))

\* sep.join(ss)
RECURSIVE Join(_, _)
Join(ss, sep) ==
    IF ss = <<>> THEN <<>>
    ELSE IF Len(ss) = 1 THEN Head(ss)
    ELSE Head(ss) \o sep \o Join(Tail(ss), sep)

\* all sequences over S of length lo..hi
SeqsOf(S, lo, hi) == UNION {[1..n -> S] : n \in lo..hi}

----------------------------------------------------------------------------
(* is_ip *)

DigitVal(c) ==
    CASE c = "0" -> 0 [] c = "1" -> 1 [] c = "2" -> 2 [] c = "3" -> 3 [] c = "4" -> 4
      [] c = "5" -> 5 [] c = "6" -> 6 [] c = "7" -> 7 [] c = "8" -> 8 [] c = "9" -> 9

\* int()'s scan of the digits: acc is the value so far, prevDigit tells whether the
\* previous character was a digit (an underscore is legal only between two digits)
RECURSIVE ScanDigits(_, _, _)
ScanDigits(s, acc, prevDigit) ==
    IF s = <<>> THEN [ok |-> prevDigit, val |-> acc]
    ELSE IF Head(s) \in Digits
         THEN ScanDigits(Tail(s), 10 * acc + DigitVal(Head(s)), TRUE)
    ELSE IF Head(s) = "_" /\ prevDigit
         THEN ScanDigits(Tail(s), acc, FALSE)
    ELSE [ok |-> FALSE, val |-> 0]

\* int(p) for a str p: ok = FALSE is ValueError
ParseInt(p) ==
    LET t    == Strip(p)
        neg  == t # <<>> /\ Head(t) = "-"
        body == IF t # <<>> /\ Head(t) \in {"+", "-"} THEN Tail(t) ELSE t
        r    == ScanDigits(body, 0, FALSE)
    IN [ok |-> r.ok, val |-> IF neg THEN 0 - r.val ELSE r.val]

InRange_NoLower(v) == v <= 255

\* 0 <= int(p) <= 255
InRange(v) == 0 <= v /\ v <= 255

\* all(0 <= int(p) <= 255 for p in parts): the generator is consumed left to right,
\* stops at the first false element, and int() raising ends it with the exception
RECURSIVE AllInRange(_)
AllInRange(parts) ==
    IF parts = <<>> THEN "True"
    ELSE LET r == ParseInt(Head(parts))
         IN IF ~r.ok THEN "raise"
            ELSE IF ~InRange(r.val) THEN "False"
            ELSE AllInRange(Tail(parts))

\* the outcome of the call is_ip(s): the bare except turns every exception into False
is_ip_call(s) ==
    LET parts == SplitSep(s, <<".">>, -1)
    IN IF Len(parts) = 4
       THEN LET r == AllInRange(parts)
            IN IF r = "raise" THEN "False" ELSE r
       ELSE "False"

is_ip(s) == is_ip_call(s) = "True"

----------------------------------------------------------------------------
(* read_csv: one iteration of the loop over the rows of the DictReader.  Every   *)
(* local of the iteration (mx_priority, txt_value, target) is assigned afresh at *)
(* the top of the loop body, so an iteration depends on its row alone.           *)

Quote == {"\""}

sSpf1      == <<"v", "=", "s", "p", "f", "1">>
sDmarc1    == <<"v", "=", "d", "m", "a", "r", "c", "1">>
sDkim1     == <<"v", "=", "d", "k", "i", "m", "1">>
sDomainkey == <<"_", "d", "o", "m", "a", "i", "n", "k", "e", "y">>
sZoom      == <<"z", "o", "o", "m", "_", "v", "e", "r", "i", "f", "y", "_">>
sInclude   == <<"i", "n", "c", "l", "u", "d", "e", ":">>
sDmarcDot  == <<"_", "d", "m", "a", "r", "c", ".">>
sSPF       == <<"S", "P", "F">>
sMx        == <<"m", "x">>
sTxt       == <<"t", "x", "t">>

\* target.strip().strip('"').strip()
Unquoted(target) == Strip(StripChars(Strip(target), Quote))

SpfIncludes_FirstOnly(unq) ==
    LET parts == SplitWs(unq, -1)
        IsInclude(part) == StartsWith(part, sInclude)
        inc == SelectSeq(parts, IsInclude)
    IN IF inc = <<>> THEN <<>> ELSE <<Strip(SplitSep(inc[1], sInclude, 1)[2])>>

\* the list `includes`: for each whitespace-separated part that starts with
\* "include:", what follows the first "include:", stripped
SpfIncludes(unq) ==
    LET parts == SplitWs(unq, -1)
        IsInclude(part) == StartsWith(part, sInclude)
        inc == SelectSeq(parts, IsInclude)
    IN [i \in 1..Len(inc) |-> Strip(SplitSep(inc[i], sInclude, 1)[2])]

\* A mis-ordered chain: the "=" rule tried before the DMARC and DKIM rules.
TxtDispatch_EqBeforeDmarc(domain, target, unq) ==
    IF StartsWith(Lower(unq), sSpf1)
    THEN [spf |-> TRUE, target |-> target, txt_value |-> unq]
    ELSE IF Contains(unq, <<"=">>)
    THEN LET parts == SplitSep(unq, <<"=">>, 1)
         IN [spf |-> FALSE,
             target |-> StripChars(Strip(parts[1]), Quote),
             txt_value |-> StripChars(Strip(parts[2]), Quote)]
    ELSE IF Contains(Lower(unq), sDmarc1)
    THEN [spf |-> FALSE, target |-> sDmarcDot \o domain, txt_value |-> unq]
    ELSE IF Contains(Lower(unq), sDkim1) \/ Contains(Lower(domain), sDomainkey)
    THEN [spf |-> FALSE, target |-> domain, txt_value |-> unq]
    ELSE IF StartsWith(Lower(unq), sZoom)
    THEN LET parts == SplitSep(unq, <<"_">>, 2)
         IN IF Len(parts) = 3
            THEN [spf |-> FALSE,
                  target |-> parts[1] \o <<"_">> \o parts[2],
                  txt_value |-> StripChars(Strip(parts[3]), Quote)]
            ELSE [spf |-> FALSE, target |-> target, txt_value |-> None]
    ELSE [spf |-> FALSE, target |-> target, txt_value |-> None]

\* the if/elif chain of the txt branch: whether the SPF branch is taken (it appends
\* its own edges and continues), else the rewritten target and txt_value
TxtDispatch(domain, target, unq) ==
    IF StartsWith(Lower(unq), sSpf1)
    THEN [spf |-> TRUE, target |-> target, txt_value |-> unq]
    ELSE IF Contains(Lower(unq), sDmarc1)
    THEN [spf |-> FALSE, target |-> sDmarcDot \o domain, txt_value |-> unq]
    ELSE IF Contains(Lower(unq), sDkim1) \/ Contains(Lower(domain), sDomainkey)
    THEN [spf |-> FALSE, target |-> domain, txt_value |-> unq]
    ELSE IF Contains(unq, <<"=">>)
    THEN LET parts == SplitSep(unq, <<"=">>, 1)
         IN [spf |-> FALSE,
             target |-> StripChars(Strip(parts[1]), Quote),
             txt_value |-> StripChars(Strip(parts[2]), Quote)]
    ELSE IF StartsWith(Lower(unq), sZoom)
    THEN LET parts == SplitSep(unq, <<"_">>, 2)
         IN IF Len(parts) = 3
            THEN [spf |-> FALSE,
                  target |-> parts[1] \o <<"_">> \o parts[2],
                  txt_value |-> StripChars(Strip(parts[3]), Quote)]
            ELSE [spf |-> FALSE, target |-> target, txt_value |-> None]
    ELSE [spf |-> FALSE, target |-> target, txt_value |-> None]

\* The locals of the iteration when it reaches the SPF branch's continue or the
\* trailing-dot step: domain, rtype, the rewritten target, mx_priority, txt_value
Rewritten(r) ==
    LET domain == Strip(r.domain)
        rtype  == Lower(Strip(r.record_type))
        target == Strip(r.target)
    IN IF rtype = sMx /\ Contains(target, <<" ">>)
       THEN LET parts == SplitWs(target, 1)
            IN [spf |-> FALSE, domain |-> domain, rtype |-> rtype,
                target |-> Lower(Strip(parts[2])),
                mx_priority |-> Strip(parts[1]), txt_value |-> None]
       ELSE IF rtype = sTxt
       THEN LET d == TxtDispatch(domain, target, Unquoted(target))
            IN [spf |-> d.spf, domain |-> domain, rtype |-> rtype,
                target |-> d.target, mx_priority |-> None, txt_value |-> d.txt_value]
       ELSE [spf |-> FALSE, domain |-> domain, rtype |-> rtype,
             target |-> target, mx_priority |-> None, txt_value |-> None]

NormalizeTarget_OneDot(target) ==
    IF ~is_ip(target) /\ target # <<>> /\ target[Len(target)] = "."
    THEN SubSeq(target, 1, Len(target) - 1)
    ELSE target

\* if not self.is_ip(target): target = target.rstrip('.')
NormalizeTarget(target) ==
    IF ~is_ip(target) THEN RStripChars(target, {"."}) ELSE target

\* the edges one iteration appends to self.edges
RowEdges(r) ==
    LET w == Rewritten(r)
    IN IF w.spf
       THEN LET includes == SpfIncludes(w.txt_value)
            IN IF includes # <<>>
               THEN [i \in 1..Len(includes) |->
                        <<w.domain, includes[i], w.rtype, None, w.txt_value>>]
               ELSE << <<w.domain, sSPF, w.rtype, None, w.txt_value>> >>
       ELSE << <<w.domain, NormalizeTarget(w.target), w.rtype, w.mx_priority, w.txt_value>> >>

----------------------------------------------------------------------------
(* build_graph: the graph is a networkx Graph, undirected and simple.  nodes maps *)
(* a node to its type attribute (None for a node that is not in the graph), adj   *)
(* maps an unordered pair {u, v} to the attributes <<type, priority, txt_value>>  *)
(* of its edge (None for no edge)                                                 *)

sA      == <<"a">>
sCname  == <<"c", "n", "a", "m", "e">>
sDomain == <<"d", "o", "m", "a", "i", "n">>

AddNode_KeepExisting(ns, n, type) ==
    IF ns[n] = None THEN [ns EXCEPT ![n] = type] ELSE ns

\* G.add_node(n, type=type): creates the node, or overwrites the type of an existing one
AddNode(ns, n, type) == [ns EXCEPT ![n] = type]

TargetType_UpgradeIp(ns, target, rtype) ==
    IF ns[target] = None
    THEN IF is_ip(target) THEN sA ELSE rtype
    ELSE IF ns[target] = sA /\ rtype = sCname THEN sCname ELSE ns[target]

TargetType_Overwrite(ns, target, rtype) ==
    IF ns[target] = None
    THEN IF is_ip(target) THEN sA ELSE rtype
    ELSE IF ~is_ip(target) /\ rtype = sCname THEN sCname ELSE ns[target]

\* the type of target after the if/else on `target not in self.G`
TargetType(ns, target, rtype) ==
    IF ns[target] = None
    THEN IF is_ip(target) THEN sA ELSE rtype
    ELSE IF ~is_ip(target)
         THEN LET old_type == ns[target]
              IN IF old_type = sA /\ rtype = sCname THEN sCname ELSE old_type
         ELSE ns[target]

AddEdge_KeepFirst(es, u, v, attrs) ==
    IF es[{u, v}] = None THEN [es EXCEPT ![{u, v}] = attrs] ELSE es

\* G.add_edge(u, v, type=.., priority=.., txt_value=..): the pair's attribute dict
\* is updated with all three keys, whichever way round the pair was added before
AddEdge(es, u, v, attrs) == [es EXCEPT ![{u, v}] = attrs]

\* the body of the loop, on the nodes
FoldNodes(ns, e) ==
    LET ns1 == AddNode(ns, e[1], sDomain)
    IN [ns1 EXCEPT ![e[2]] = TargetType(ns1, e[2], e[3])]

\* the body of the loop, on the edges
FoldEdges(es, e) ==
    AddEdge(es, e[1], e[2], <<e[3], e[4], e[5]>>)

----------------------------------------------------------------------------
(* The calls of is_ip on bounded inputs *)

MaxSegs == 5

\* the dot-separated tokens the arguments are made of
IpTokens ==
    { <<>>, <<"0">>, <<"2", "5", "5">>, <<"2", "5", "6">>, <<"a">>, <<" ", "7">>,
      <<"-", "0">>, <<"-", "1">>, <<"1", "_", "0">> }

IpArgs == {Join(toks, <<".">>) : toks \in SeqsOf(IpTokens, 1, MaxSegs)}

IdleIp    == ipArg = None /\ ipResult = "none"
IdleRead  == row = None /\ edges = <<>> /\ pcRead = "idle"
IdleGraph == /\ nodes = <<>> /\ adj = <<>> /\ folded = 0 /\ cur = None
             /\ hist = <<>> /\ lastEdge = <<>>
IdleMain  == /\ inputKind = "none" /\ listing = <<>> /\ idx = 0
             /\ attempted = {} /\ generated = {} /\ pcMain = "idle"

InitIp == IdleIp /\ IdleRead /\ IdleGraph /\ IdleMain

\* one call is_ip(s)
IsIpCall ==
    /\ ipResult = "none"
    /\ \E s \in IpArgs :
          /\ ipArg' = s
          /\ ipResult' = is_ip_call(s)
    /\ UNCHANGED <<readVars, graphVars, mainVars>>

NextIp == IsIpCall

SpecIp == InitIp /\ [][NextIp]_vars

DigitChar(d) ==
    CASE d = 0 -> "0" [] d = 1 -> "1" [] d = 2 -> "2" [] d = 3 -> "3" [] d = 4 -> "4"
      [] d = 5 -> "5" [] d = 6 -> "6" [] d = 7 -> "7" [] d = 8 -> "8" [] d = 9 -> "9"

\* the decimal numeral of n >= 0
RECURSIVE Decimal(_)
Decimal(n) == IF n < 10 THEN <<DigitChar(n)>> ELSE Decimal(n \div 10) \o <<DigitChar(n % 10)>>

\* tok is a spelling of the integer n >= 0 that int() accepts: the numeral of n, with
\* optional leading zeros, single underscores between digits, a sign (a minus only
\* for zero) and surrounding whitespace
Spells(tok, n) ==
    LET t      == Strip(tok)
        signed == t # <<>> /\ t[1] \in {"+", "-"}
        body   == IF signed THEN Tail(t) ELSE t
        IsDigit(c) == c \in Digits
    IN /\ body # <<>>
       /\ body[1] \in Digits /\ body[Len(body)] \in Digits
       /\ \A i \in 1..Len(body) : body[i] \in Digits \cup {"_"}
       /\ \A i \in 1..(Len(body) - 1) : ~(body[i] = "_" /\ body[i + 1] = "_")
       /\ LStripChars(SelectSeq(body, IsDigit), {"0"}) = LStripChars(Decimal(n), {"0"})
       /\ (signed /\ t[1] = "-") => n = 0

\* s is four dot-separated tokens, each an integer in [0,255]
DottedQuad(s) ==
    LET toks == SplitSep(s, <<".">>, -1)
    IN /\ Len(toks) = 4
       /\ \A i \in 1..4 : \E n \in 0..255 : Spells(toks[i], n)

\* C6: is_ip(s) returns true exactly when s splits on "." into four tokens that are
\* each an integer in [0,255] (as int() reads integers); for every other string it
\* returns false, and no call raises an error.
C6_IsIpExactlyDottedQuad ==
    ipResult # "none" =>
        /\ ipResult \in {"True", "False"}
        /\ (ipResult = "True") <=> DottedQuad(ipArg)

\* C6 witness: a call on a dotted quad returned true, among the inputs that have a
\* wrong segment count, an out-of-range token, and a non-numeric or empty token.
C6_Witness ==
    /\ ipResult = "True"
    /\ ipArg = <<"0", ".", "2", "5", "5", ".", " ", "7", ".", "1", "_", "0">>

----------------------------------------------------------------------------
(* read_csv on bounded rows *)

MaxFrags == 3

\* the pieces the target column is made of
TargetFrags ==
    { <<"v", "=", "S", "P", "F", "1">>,
      <<" ", "i", "n", "c", "l", "u", "d", "e", ":", "h">>,
      <<".">>, <<" ">>, <<"h">>, <<"\"">>, <<"=">>,
      <<"v", "=", "D", "M", "A", "R", "C", "1">>,
      <<"v", "=", "d", "k", "i", "m", "1">>,
      <<"Z", "o", "o", "m", "_", "v", "e", "r", "i", "f", "y", "_">>,
      <<"1", ".", "2", ".", "3", ".", "4">> }

Targets == {Concat(fs) : fs \in SeqsOf(TargetFrags, 0, MaxFrags)}

Domains == { <<"d">>, <<"k", ".">> \o sDomainkey }

RecordTypes == { <<"T", "X", "T">>, <<"m", "x">>, <<"a">> }

Rows == [domain : Domains, record_type : RecordTypes, target : Targets]

InitRead ==
    /\ row = None /\ edges = <<>> /\ pcRead = "open"
    /\ IdleIp /\ IdleGraph /\ IdleMain

\* one iteration of `for row in reader`
ReadRow ==
    /\ pcRead = "open"
    /\ \E r \in Rows :
          /\ row' = r
          /\ edges' = edges \o RowEdges(r)
    /\ pcRead' = "eof"
    /\ UNCHANGED <<ipVars, graphVars, mainVars>>

NextRead == ReadRow

SpecRead == InitRead /\ [][NextRead]_vars

\* the row just read, as the loop body sees it
RowDomain == Strip(row.domain)
RowType   == Lower(Strip(row.record_type))
RowTarget == Strip(row.target)
RowValue  == Unquoted(RowTarget)
RowIsSpf  == RowType = sTxt /\ StartsWith(Lower(RowValue), sSpf1)

EdgeSource(e)     == e[1]
EdgeTarget(e)     == e[2]
EdgeType(e)       == e[3]
EdgePriority(e)   == e[4]
EdgeAnnotation(e) == e[5]

\* the hosts of the include:<host> tokens of a value, in order
IncludeHosts(value) ==
    LET toks == SplitWs(value, -1)
        IsTok(t) == Len(t) >= 8 /\ SubSeq(t, 1, 8) = sInclude
        inc  == SelectSeq(toks, IsTok)
    IN [i \in 1..Len(inc) |-> SubSeq(inc[i], 9, Len(inc[i]))]

\* the targets an SPF value stands for: its include hosts, or the placeholder SPF
SpfTargets(value) ==
    IF IncludeHosts(value) = <<>> THEN <<sSPF>> ELSE IncludeHosts(value)

\* C5: a TXT row whose unquoted value begins with v=spf1 (case-insensitive) yields
\* exactly one edge of type txt per include:<host> token, targeting that host, or
\* exactly one edge to the literal SPF when there is no include token, and no
\* further edge.
C5_SpfOneEdgePerInclude ==
    (pcRead = "eof" /\ RowIsSpf) =>
        /\ Len(edges) = Len(SpfTargets(RowValue))
        /\ \A i \in 1..Len(edges) :
              /\ EdgeTarget(edges[i]) = SpfTargets(RowValue)[i]
              /\ EdgeType(edges[i]) = sTxt
              /\ EdgeSource(edges[i]) = RowDomain

\* C5 witness: an SPF row with two include tokens gave two edges.
C5_Witness ==
    /\ pcRead = "eof" /\ RowIsSpf
    /\ Len(IncludeHosts(RowValue)) = 2
    /\ Len(edges) = 2

\* C5 witness: an SPF row without include token gave the single SPF edge.
C5_WitnessNoInclude ==
    /\ pcRead = "eof" /\ RowIsSpf
    /\ IncludeHosts(RowValue) = <<>>
    /\ Len(edges) = 1 /\ EdgeTarget(edges[1]) = sSPF

\* rule k of the TXT dispatch matches the unquoted value (rule 3 also by the domain)
RuleMatches(k, domain, value) ==
    CASE k = 1 -> StartsWith(Lower(value), sSpf1)
      [] k = 2 -> Contains(Lower(value), sDmarc1)
      [] k = 3 -> Contains(Lower(value), sDkim1) \/ Contains(Lower(domain), sDomainkey)
      [] k = 4 -> Contains(value, <<"=">>)
      [] k = 5 -> StartsWith(Lower(value), sZoom)

\* the rules that match, and the earliest of them (6, the generic case, when none does)
MatchingRules(domain, value) == {k \in 1..5 : RuleMatches(k, domain, value)}

FirstRule(domain, value) ==
    LET m == MatchingRules(domain, value)
    IN IF m = {} THEN 6 ELSE CHOOSE k \in m : \A j \in m : k <= j

\* what rule k alone makes of a TXT row: the targets (before the common trailing-dot
\* step, which the SPF rule skips) and the annotation
RuleTargets(k, domain, target, value) ==
    CASE k = 1 -> SpfTargets(value)
      [] k = 2 -> << sDmarcDot \o domain >>
      [] k = 3 -> << domain >>
      [] k = 4 -> << StripChars(Strip(SubSeq(value, 1, Find(value, <<"=">>) - 1)), Quote) >>
      [] k = 5 -> << SubSeq(value, 1, 11) >>
      [] k = 6 -> << target >>

RuleAnnotation(k, value) ==
    CASE k \in {1, 2, 3} -> value
      [] k = 4 -> StripChars(Strip(SubSeq(value, Find(value, <<"=">>) + 1, Len(value))), Quote)
      [] k = 5 -> StripChars(Strip(SubSeq(value, 13, Len(value))), Quote)
      [] k = 6 -> None

\* a string without its trailing dots
WithoutTrailingDots(t) ==
    CHOOSE u \in {SubSeq(t, 1, n) : n \in 0..Len(t)} :
        /\ \A i \in (Len(u) + 1)..Len(t) : t[i] = "."
        /\ (u = <<>> \/ u[Len(u)] # ".")

\* C8: for a TXT row the rules are tried in the order SPF prefix, DMARC, DKIM,
\* contains "=", zoom_verify_ prefix, and the first rule that matches the unquoted
\* value alone decides the target and the annotation of the row's edges (the target
\* then passes the common trailing-dot step, except under the SPF rule); a value
\* that matches no rule keeps the raw target and has no annotation.
C8_FirstMatchingRuleDecides ==
    (pcRead = "eof" /\ RowType = sTxt) =>
        LET k  == FirstRule(RowDomain, RowValue)
            ts == RuleTargets(k, RowDomain, RowTarget, RowValue)
        IN /\ Len(edges) = Len(ts)
           /\ \A i \in 1..Len(edges) :
                 /\ EdgeTarget(edges[i]) =
                       IF k = 1 \/ is_ip(ts[i]) THEN ts[i] ELSE WithoutTrailingDots(ts[i])
                 /\ EdgeAnnotation(edges[i]) = RuleAnnotation(k, RowValue)

\* C8 witness: a value matching the DMARC, the DKIM and the "=" rule at once was
\* handled by the DMARC rule.
C8_Witness ==
    /\ pcRead = "eof" /\ RowType = sTxt
    /\ MatchingRules(RowDomain, RowValue) = {2, 3, 4}
    /\ EdgeTarget(edges[1]) = sDmarcDot \o RowDomain

\* C8, the other cases: a value matching only the zoom rule, and one matching none.
C8_WitnessZoom ==
    /\ pcRead = "eof" /\ RowType = sTxt
    /\ MatchingRules(RowDomain, RowValue) = {5}
    /\ EdgeAnnotation(edges[1]) = <<"h">>

C8_WitnessGeneric ==
    /\ pcRead = "eof" /\ RowType = sTxt
    /\ MatchingRules(RowDomain, RowValue) = {}
    /\ EdgeAnnotation(edges[1]) = None /\ EdgeTarget(edges[1]) = <<"\"", "h">>

\* the targets of the row's edges before any trailing-dot handling
RewrittenTargets ==
    IF Rewritten(row).spf THEN SpfTargets(RowValue) ELSE << Rewritten(row).target >>

\* a string with one trailing dot removed, if it has one
WithoutOneTrailingDot(t) ==
    IF t # <<>> /\ t[Len(t)] = "." THEN SubSeq(t, 1, Len(t) - 1) ELSE t

\* C4, as claimed: every emitted edge whose target is not an IPv4 literal has had
\* exactly one trailing "." removed (a target ending in ".." keeps one dot), for all
\* record types including the hosts of SPF include edges; an IPv4 literal target is
\* never altered.
C4_ExactlyOneDotEverywhere ==
    pcRead = "eof" =>
        /\ Len(edges) = Len(RewrittenTargets)
        /\ \A i \in 1..Len(edges) :
              EdgeTarget(edges[i]) =
                  IF is_ip(RewrittenTargets[i]) THEN RewrittenTargets[i]
                  ELSE WithoutOneTrailingDot(RewrittenTargets[i])

\* C4, amended: every edge emitted by the common append step (every row but a TXT
\* SPF row) whose rewritten target is not an IPv4 literal has had all its trailing
\* "." removed; the edges of a TXT SPF row carry their include hosts as written,
\* trailing dots kept; an IPv4 literal target is never altered.
C4_AllDotsExceptSpf ==
    pcRead = "eof" =>
        /\ Len(edges) = Len(RewrittenTargets)
        /\ \A i \in 1..Len(edges) :
              EdgeTarget(edges[i]) =
                  IF RowIsSpf \/ is_ip(RewrittenTargets[i]) THEN RewrittenTargets[i]
                  ELSE WithoutTrailingDots(RewrittenTargets[i])

\* C4 witness: a target ending in ".." was emitted without any trailing dot.
C4_Witness ==
    /\ pcRead = "eof" /\ ~RowIsSpf
    /\ RewrittenTargets = << <<"h", ".", ".">> >>
    /\ EdgeTarget(edges[1]) = <<"h">>

\* C4, the SPF case: an include host written with a trailing dot keeps it.
C4_WitnessSpf ==
    /\ pcRead = "eof" /\ RowIsSpf
    /\ EdgeTarget(edges[1]) = <<"h", ".">>

\* C4, the IPv4 case: a literal followed by a dot is no literal and loses the dot.
C4_WitnessIpDot ==
    /\ pcRead = "eof"
    /\ RewrittenTargets = << <<"1", ".", "2", ".", "3", ".", "4", ".">> >>
    /\ EdgeTarget(edges[1]) = <<"1", ".", "2", ".", "3", ".", "4">>

----------------------------------------------------------------------------
(* build_graph on bounded edge lists: the loop takes the edges of self.edges one *)
(* by one, and the list is any list over GraphEdges of at most MaxEdges edges    *)

MaxEdges == 3

NodeNames == { <<"1", ".", "2", ".", "3", ".", "4">>, <<"x">>, <<"y">> }

Pairs == {{u, v} : u \in NodeNames, v \in NodeNames}

\* (rtype, mx_priority, txt_value) of an edge, as read_csv pairs them
EdgeAttrs ==
    { <<sA, None, None>>, <<sCname, None, None>>,
      <<sMx, <<"1", "0">>, None>>, <<sTxt, None, <<"h">> >> }

GraphEdges ==
    { <<d, t, a[1], a[2], a[3]>> : d \in NodeNames, t \in NodeNames, a \in EdgeAttrs }

NoHist == [how |-> "none", rtype |-> None, source |-> FALSE, laterCname |-> FALSE, laterA |-> FALSE]

InitGraph ==
    /\ nodes = [n \in NodeNames |-> None]
    /\ adj = [p \in Pairs |-> None]
    /\ folded = 0
    /\ cur = None
    /\ hist = [n \in NodeNames |-> NoHist]
    /\ lastEdge = [p \in Pairs |-> None]
    /\ IdleIp /\ IdleRead /\ IdleMain

\* what folding e records about node n: how it was created (as the source or as the
\* target of an edge, and of which type), and what referenced it afterwards
HistAfter(h, n, e, existed) ==
    LET isSrc == n = e[1]
        isTgt == n = e[2]
    IN IF ~isSrc /\ ~isTgt THEN h
       ELSE [how |-> IF existed THEN h.how ELSE IF isSrc THEN "source" ELSE "target",
             rtype |-> IF existed THEN h.rtype ELSE IF isSrc THEN None ELSE e[3],
             source |-> h.source \/ isSrc,
             laterCname |-> h.laterCname \/ (existed /\ isTgt /\ e[3] = sCname),
             laterA |-> h.laterA \/ (existed /\ isTgt /\ e[3] = sA)]

\* one iteration of `for domain, target, rtype, mx_priority, txt_value in self.edges`
BuildStep ==
    /\ folded < MaxEdges
    /\ \E e \in GraphEdges :
          /\ cur' = e
          /\ nodes' = FoldNodes(nodes, e)
          /\ adj' = FoldEdges(adj, e)
          /\ hist' = [n \in NodeNames |-> HistAfter(hist[n], n, e, nodes[n] # None)]
          /\ lastEdge' = [lastEdge EXCEPT ![{e[1], e[2]}] = e]
    /\ folded' = folded + 1
    /\ UNCHANGED <<ipVars, readVars, mainVars>>

NextGraph == BuildStep

SpecGraph == InitGraph /\ [][NextGraph]_vars

\* node n is in the graph
InGraph(ns, n) == ns[n] # None

\* C1, as claimed: an existing node's type changes only by the upgrade a -> cname,
\* whether the node is later referenced as a target or as a source.
C1_OnlyUpgradeEver ==
    [][\A n \in NodeNames :
          (InGraph(nodes, n) /\ nodes'[n] # nodes[n]) =>
              (nodes[n] = sA /\ nodes'[n] = sCname)]_vars

\* C1, amended: an existing node's type changes only by the upgrade a -> cname, when
\* the node is not an IPv4 literal and is the target of the cname edge being folded,
\* or by being set to domain, when the node is the source of the edge being folded;
\* no other change happens, in particular never cname -> a.
C1_UpgradeOrSourceRetype ==
    [][\A n \in NodeNames :
          (InGraph(nodes, n) /\ nodes'[n] # nodes[n]) =>
              \/ /\ nodes[n] = sA /\ nodes'[n] = sCname
                 /\ n = cur'[2] /\ cur'[3] = sCname /\ n # cur'[1] /\ ~DottedQuad(n)
              \/ /\ nodes'[n] = sDomain /\ n = cur'[1]]_vars

\* C1 witness: both changes have happened, an upgrade a -> cname of one node and a
\* retyping of another, created as an mx target, to domain.
C1_Witness ==
    \E n, m \in NodeNames :
        /\ hist[n].how = "target" /\ hist[n].rtype = sA /\ nodes[n] = sCname
        /\ hist[m].how = "target" /\ hist[m].rtype = sMx /\ nodes[m] = sDomain

\* n was created as the target of an edge, typed a because it looks like an IPv4 literal
CreatedAsIp(n) == hist[n].how = "target" /\ DottedQuad(n)

\* C2, as claimed: a node created with type a because its target is IP-looking and
\* later the target of a cname edge has type cname; a node created as a cname target
\* and later the target of an a edge has type cname.
C2_IpNodeUpgraded ==
    \A n \in NodeNames :
        /\ (CreatedAsIp(n) /\ hist[n].laterCname) => nodes[n] = sCname
        /\ (hist[n].how = "target" /\ hist[n].rtype = sCname /\ hist[n].laterA)
              => nodes[n] = sCname

\* C2, amended: a node that is not IP-looking, created with type a as the target of
\* an a edge and later the target of a cname edge, has type cname, and in the reverse
\* order (created as a cname target, later the target of an a edge) its type stays
\* cname; a node created as an IP-looking target has type a and keeps it when it is
\* later the target of a cname edge; in each case a node that has also been the
\* source of an edge has type domain instead.
C2_NonIpNodeUpgraded ==
    \A n \in NodeNames :
        LET unlessSource(t) == nodes[n] = IF hist[n].source THEN sDomain ELSE t
        IN /\ (hist[n].how = "target" /\ ~DottedQuad(n) /\ hist[n].rtype = sA
                  /\ hist[n].laterCname) => unlessSource(sCname)
           /\ (hist[n].how = "target" /\ ~DottedQuad(n) /\ hist[n].rtype = sCname
                  /\ hist[n].laterA) => unlessSource(sCname)
           /\ (CreatedAsIp(n) /\ hist[n].laterCname) => unlessSource(sA)

\* C2 witness: a non-IP node created by an a edge was upgraded by a later cname edge.
C2_Witness ==
    \E n \in NodeNames :
        /\ hist[n].how = "target" /\ ~DottedQuad(n) /\ hist[n].rtype = sA
        /\ hist[n].laterCname /\ ~hist[n].source /\ nodes[n] = sCname

\* C2, the IP-looking case: created as an a target, later a cname target, still a.
C2_WitnessIp ==
    \E m \in NodeNames :
        /\ CreatedAsIp(m) /\ hist[m].rtype = sA /\ hist[m].laterCname
        /\ ~hist[m].source /\ nodes[m] = sA

\* C2, the reverse order: created as a cname target, later an a target, still cname.
C2_WitnessReverse ==
    \E n \in NodeNames :
        /\ hist[n].how = "target" /\ hist[n].rtype = sCname /\ hist[n].laterA
        /\ nodes[n] = sCname

AttrType(a)     == a[1]
AttrPriority(a) == a[2]
AttrTxtValue(a) == a[3]

\* C9: each unordered pair of nodes has at most one edge (adj has one entry per
\* pair), and its type, priority and annotation are all those of the last folded
\* edge that joins the pair, in either direction.
C9_LastEdgeWins ==
    \A p \in Pairs :
        IF lastEdge[p] = None
        THEN adj[p] = None
        ELSE /\ adj[p] # None
             /\ AttrType(adj[p]) = EdgeType(lastEdge[p])
             /\ AttrPriority(adj[p]) = EdgePriority(lastEdge[p])
             /\ AttrTxtValue(adj[p]) = EdgeAnnotation(lastEdge[p])

\* C9 witness: a pair first joined by an mx edge with a priority, last joined in the
\* other direction by an a edge; the priority is gone.
C9_Witness ==
    \E u, v \in NodeNames :
        /\ u # v /\ folded = 2
        /\ cur = <<v, u, sA, None, None>>
        /\ adj[{u, v}] = <<sA, None, None>>
        /\ hist[v].how = "target" /\ hist[v].rtype = sMx

NodeTypes == {sDomain} \cup {a[1] : a \in EdgeAttrs}

\* C10: both endpoints of every edge are nodes with one type each, and every node
\* that is the source of at least one folded edge has type domain, whatever edges
\* reference it as a target before or after.
C10_EndpointsExistSourcesDomain ==
    /\ \A p \in Pairs : adj[p] # None => \A n \in p : nodes[n] \in NodeTypes
    /\ \A n \in NodeNames : hist[n].source => nodes[n] = sDomain

\* C10 witness: a node created as an a target, then the source of an edge, then the
\* target of a cname edge, is typed domain.
C10_Witness ==
    \E n \in NodeNames :
        /\ hist[n].how = "target" /\ hist[n].rtype = sA
        /\ hist[n].source /\ hist[n].laterCname
        /\ cur[2] = n /\ cur[3] = sCname
        /\ nodes[n] = sDomain

----------------------------------------------------------------------------
(* main: a file of the listing is its name and whether GraphToggleViz(f).run()  *)
(* raises on it (read_csv raises KeyError on a row that lacks a column, and     *)
(* nothing in run or main catches)                                              *)

MaxFiles == 3

sDotCsv == <<".", "c", "s", "v">>

FileNames ==
    { <<"a", ".", "c", "s", "v">>, <<"B", ".", "C", "S", "V">>, <<"n", ".", "t", "x", "t">> }

Files == [name : FileNames, raises : BOOLEAN]

\* f.lower().endswith(".csv")
IsCsvName(name) == EndsWith(Lower(name), sDotCsv)

InitMain ==
    /\ inputKind \in {"file", "dir", "invalid"}
    /\ listing \in SeqsOf(Files, 0, MaxFiles)
    /\ inputKind = "file" => Len(listing) = 1
    /\ inputKind = "invalid" => listing = <<>>
    /\ idx = 0 /\ attempted = {} /\ generated = {} /\ pcMain = "start"
    /\ IdleIp /\ IdleRead /\ IdleGraph

\* os.path.isfile(args.input): GraphToggleViz(args.input).run()
MainFile ==
    /\ pcMain = "start" /\ inputKind = "file"
    /\ attempted' = {1}
    /\ IF listing[1].raises
       THEN pcMain' = "raised" /\ generated' = generated
       ELSE pcMain' = "done" /\ generated' = {1}
    /\ UNCHANGED <<inputKind, listing, idx, ipVars, readVars, graphVars>>

\* os.path.isdir(args.input): the loop over os.listdir(args.input) starts
MainDir ==
    /\ pcMain = "start" /\ inputKind = "dir"
    /\ pcMain' = "loop" /\ idx' = 1
    /\ UNCHANGED <<inputKind, listing, attempted, generated, ipVars, readVars, graphVars>>

\* neither a file nor a directory: the message, then sys.exit(1)
MainInvalid ==
    /\ pcMain = "start" /\ inputKind = "invalid"
    /\ pcMain' = "exit1"
    /\ UNCHANGED <<inputKind, listing, idx, attempted, generated, ipVars, readVars, graphVars>>

\* one iteration of `for f in os.listdir(args.input)`, or the end of the loop; an
\* exception of run() leaves the loop and main
DirStep ==
    /\ pcMain = "loop"
    /\ IF idx > Len(listing)
       THEN pcMain' = "done" /\ UNCHANGED <<idx, attempted, generated>>
       ELSE IF ~IsCsvName(listing[idx].name)
       THEN idx' = idx + 1 /\ UNCHANGED <<pcMain, attempted, generated>>
       ELSE /\ attempted' = attempted \cup {idx}
            /\ IF listing[idx].raises
               THEN pcMain' = "raised" /\ UNCHANGED <<idx, generated>>
               ELSE /\ generated' = generated \cup {idx}
                    /\ idx' = idx + 1
                    /\ UNCHANGED pcMain
    /\ UNCHANGED <<inputKind, listing, ipVars, readVars, graphVars>>

NextMain == MainFile \/ MainDir \/ MainInvalid \/ DirStep

SpecMain == InitMain /\ [][NextMain]_vars

\* main has ended, normally or by an exception or by sys.exit
MainEnded == pcMain \in {"done", "raised", "exit1"}

\* the name ends in .csv, in any mix of upper and lower case
EndsInCsv(name) ==
    LET n == Len(name)
    IN /\ n >= 4
       /\ name[n - 3] = "."
       /\ name[n - 2] \in {"c", "C"} /\ name[n - 1] \in {"s", "S"} /\ name[n] \in {"v", "V"}

\* C3: in directory mode every file of the directory whose name ends in .csv
\* (case-insensitive) is attempted, one after the other; when processing one file
\* raises an error, the files after it are still attempted.
C3_EveryCsvAttempted ==
    (inputKind = "dir" /\ MainEnded) =>
        \A i \in 1..Len(listing) : EndsInCsv(listing[i].name) => i \in attempted

====
